---- MODULE Spec2Model ----
(***************************************************************************)
(* LLMChat (chatbot.py): the connectivity probes, the response generator,  *)
(* the formatting helper and the Streamlit script main(), which is run     *)
(* once per user interaction against the session state.                    *)
(*                                                                         *)
(* A Python str is a sequence of chunks.  A chunk is either one whitespace *)
(* character or a run of text that starts and ends with a non-whitespace   *)
(* character, so that str.strip() acts on chunks as it acts on characters. *)
(***************************************************************************)
EXTENDS Integers, Sequences, FiniteSets, TLC

\* ------------------------------------------------------------------ bounds
MaxLen == 6
MaxTurns == 2

\* ----------------------------------------------------------------- strings
\* The characters str.strip() removes when called without an argument.
Whitespace == {" ", "\t", "\n", "\r", "\f"}

\* The characters the reply and prompt inputs are built from.
Chars == {" ", "\n", "a"}

RECURSIVE StringsUpTo(_)
StringsUpTo(n) ==
    IF n = 0 THEN {<<>>}
    ELSE LET shorter == StringsUpTo(n - 1)
         IN  shorter \cup {Append(s, c) : s \in {t \in shorter : Len(t) = n - 1}, c \in Chars}

Reverse(s) == [i \in 1..Len(s) |-> s[Len(s) + 1 - i]]

IsPrefix(s, t) == Len(s) <= Len(t) /\ SubSeq(t, 1, Len(s)) = s

\* str.lstrip(): drop the leading whitespace.
RECURSIVE lstrip(_)
lstrip(s) ==
    IF s = <<>> THEN <<>>
    ELSE IF Head(s) \in Whitespace THEN lstrip(Tail(s))
    ELSE s

\* str.rstrip(): drop the trailing whitespace.
RECURSIVE rstrip(_)
rstrip(s) ==
    IF s = <<>> THEN <<>>
    ELSE IF s[Len(s)] \in Whitespace THEN rstrip(SubSeq(s, 1, Len(s) - 1))
    ELSE s

\* str.strip()
strip(s) == rstrip(lstrip(s))

\* A plausible slip: only the leading whitespace is removed.
format_response_lstrip(response) == lstrip(response)

\* format_response(response): return response.strip()
format_response(response) == strip(response)

\* ------------------------------------------------------- response generator
\* Python's None, passed where a str is expected.
None == [none |-> TRUE]

\* str(e) of the KeyError raised by d[key] on a dict without that key.
KeyErrorText(key) == <<"'" \o key \o "'">>

\* response['message']['content'] on the reply object of ollama.chat: the
\* value, or the KeyError of the first missing key.
Subscript(reply) ==
    IF "message" \notin DOMAIN reply
    THEN [kind |-> "raise", text |-> KeyErrorText("message")]
    ELSE IF "content" \notin DOMAIN reply.message
    THEN [kind |-> "raise", text |-> KeyErrorText("content")]
    ELSE [kind |-> "return", text |-> reply.message.content]

\* What the try block of generate_llm_response evaluates to for one outcome
\* of ollama.chat: the call raises, or it returns a reply object.
TryChat(backend) ==
    IF backend.kind = "raise"
    THEN [kind |-> "raise", text |-> backend.desc]
    ELSE Subscript(backend.reply)

ErrorMarker == <<"Error communicating with Ollama: ">>

\* A plausible slip: the failure is swallowed and the description returned.
generate_llm_response_swallow(prompt, model, backend) ==
    LET messages == <<[role |-> "user", content |-> prompt]>>
        r == TryChat(backend)
    IN  [calls |-> <<[model |-> model, messages |-> messages]>>,
         kind  |-> "return",
         text  |-> r.text]

\* generate_llm_response(prompt, model): one ollama.chat call; the reply's
\* message.content, or Exception("Error communicating with Ollama: " + str(e)).
generate_llm_response(prompt, model, backend) ==
    LET messages == <<[role |-> "user", content |-> prompt]>>
        r == TryChat(backend)
    IN  [calls |-> <<[model |-> model, messages |-> messages]>>,
         kind  |-> r.kind,
         text  |-> IF r.kind = "raise" THEN ErrorMarker \o r.text ELSE r.text]

\* -------------------------------------------------------- connectivity probe
\* JSON values of the tags payload.
JNull == [t |-> "null"]
JList(items) == [t |-> "list", items |-> items]
JObject(fields) == [t |-> "object", fields |-> fields]

\* The outcome of requests.get(".../api/tags", timeout=5): the call raises
\* (connection error, timeout), or a response with a status code and a body.
GetRaises == [kind |-> "raise"]
GetResponse(status, body) == [kind |-> "response", status |-> status, body |-> body]
NotJson == [json |-> FALSE]
Json(data) == [json |-> TRUE, data |-> data]

HttpOk == 200

\* A plausible slip: the except branch answers True.
check_ollama_connection_raise_true(get) ==
    IF get.kind = "raise" THEN TRUE ELSE get.status = HttpOk

\* check_ollama_connection(): response.status_code == 200, False on any raise.
check_ollama_connection(get) ==
    IF get.kind = "raise" THEN FALSE ELSE get.status = HttpOk

\* model['name'] for every model of the list; raises when an entry is no
\* object or has no name.
RECURSIVE Names(_)
Names(items) ==
    IF items = <<>> THEN [kind |-> "return", value |-> <<>>]
    ELSE LET m == Head(items)
             rest == Names(Tail(items))
         IN  IF m.t # "object" \/ "name" \notin DOMAIN m.fields
             THEN [kind |-> "raise", value |-> <<>>]
             ELSE IF rest.kind = "raise" THEN rest
             ELSE [kind |-> "return", value |-> <<m.fields.name>> \o rest.value]

\* [model['name'] for model in models_data.get('models', [])] on the body.
ModelNames(body) ==
    IF ~body.json THEN [kind |-> "raise", value |-> <<>>]
    ELSE IF body.data.t # "object" THEN [kind |-> "raise", value |-> <<>>]
    ELSE IF "models" \notin DOMAIN body.data.fields THEN [kind |-> "return", value |-> <<>>]
    ELSE LET models == body.data.fields.models
         IN  \* a value that is no list cannot be iterated, or yields entries
             \* that are no objects, or yields nothing: no names either way
             IF models.t = "list" THEN Names(models.items)
             ELSE [kind |-> "raise", value |-> <<>>]

\* A plausible slip: the status code is not looked at.
get_available_models_nostatus(get) ==
    IF get.kind = "raise" THEN <<>>
    ELSE LET r == ModelNames(get.body)
         IN  IF r.kind = "raise" THEN <<>> ELSE r.value

\* get_available_models(): the names on a 200 response, [] otherwise and on
\* any raise.
get_available_models(get) ==
    IF get.kind = "raise" THEN <<>>
    ELSE IF get.status = HttpOk
    THEN LET r == ModelNames(get.body)
         IN  IF r.kind = "raise" THEN <<>> ELSE r.value
    ELSE <<>>

\* ------------------------------------------------------------- the session
VARIABLES
    session_keys,           \* the keys present in st.session_state
    conversation_history,   \* st.session_state.conversation_history
    user_prompt,            \* st.session_state.user_prompt
    rerun,                  \* st.rerun() was called: the script runs again at once
    page,                   \* what the last run of main() did and rendered
    fn_in,                  \* a function under study: its name and arguments
    fn_out                  \* and its result

vars == <<session_keys, conversation_history, user_prompt, rerun, page, fn_in, fn_out>>

session == <<session_keys, conversation_history, user_prompt>>

fn == <<fn_in, fn_out>>

\* model_options when the server lists no model.
FallbackModels == <<"llama3.2", "llama3.1", "mistral", "codellama", "neural-chat">>

sample_prompts ==
    << <<"Explain quantum computing in simple terms">>,
       <<"Write a short story about a robot learning to paint">>,
       <<"What are the benefits of renewable energy?">>,
       <<"Create a recipe for chocolate chip cookies">> >>

\* ---- the inputs of one run of main()
\* What the tags endpoint answers to one GET.
TagsPayload(names) ==
    Json(JObject([models |-> JList([i \in 1..Len(names) |-> JObject([name |-> names[i]])])]))

UIEndpoints ==
    { GetRaises,
      GetResponse(HttpOk, TagsPayload(<<>>)),
      GetResponse(HttpOk, TagsPayload(<<"llama3.1", "llama3.2">>)) }

\* The same for the GETs of check_ollama_connection, which does not read the
\* body.
ProbeEndpoints == { GetRaises, GetResponse(HttpOk, TagsPayload(<<>>)) }

\* What the user typed into the text area.
TypedPrompts == { <<>>, <<" ">>, <<" ", "a">> }

\* The entries of the select box the user picks among.
SelectChoices == {1, 2}

\* The sample buttons the user clicks.
SampleChoices == {1, 2}

\* What ollama.chat does with one call.
ChatRaises(desc) == [kind |-> "raise", desc |-> desc]
ChatReplies(reply) == [kind |-> "reply", reply |-> reply]

UIBackends ==
    { ChatRaises(<<"Connection error">>),
      ChatReplies([message |-> [role |-> "assistant"]]),
      ChatReplies([message |-> [content |-> <<"a">>]]),
      ChatReplies([message |-> [content |-> <<" ", "a", "\n">>]]) }

\* time.strftime("%H:%M:%S") at the moment of the append; the reading has a
\* resolution of one second, so the turns of a session may share it.
Times == {"12:00:00"}

\* The status of a GET as the probe sees it; 0 when the GET raised.
StatusOf(get) == IF get.kind = "raise" THEN 0 ELSE get.status

\* The notices of page.messages and the lines that show them:
\*   "Ollama is not running"  st.error and the instructions, lines 101-123
\*   "models available"       st.success, line 154
\*   "no models found"        st.warning and st.error, lines 143 and 156
\*   "connected"              st.success, line 208
\*   "not connected"          st.error, line 210
\*   "generated"              st.success, line 258
\*   "generation failed"      st.error and st.info, lines 271-272
\*   "enter a prompt"         st.warning, line 274
\* A page on which nothing was rendered: button is the control that started
\* the run, conn the statuses check_ollama_connection met, messages the
\* notices shown, prompt and model the values of the text area and the select
\* box that were submitted, calls the ollama.chat calls made, reply what the generator returned,
\* error the text of st.error, history the turns shown, in the order shown.
NoPage ==
    [button |-> "none", conn |-> <<>>, messages |-> {}, prompt |-> <<>>,
     model |-> "", calls |-> <<>>, reply |-> <<>>, error |-> <<>>,
     rendered |-> FALSE, history |-> <<>>]

\* ---------------------------------------------------------------- main()
\* A plausible slip: the text is compared without strip().
IsBlank_nostrip(text) == text = <<>>

\* user_prompt.strip() != "" negated: nothing but whitespace was entered.
IsBlank(text) == strip(text) = <<>>

\* A plausible slip: a turn already in the log is not added again.
AppendTurn_dedup(history, turn) ==
    IF \E i \in 1..Len(history) : history[i] = turn THEN history
    ELSE Append(history, turn)

\* st.session_state.conversation_history.append({...})
AppendTurn(history, turn) == Append(history, turn)

\* A plausible slip: the failed generation leaves a placeholder turn.
HistoryAfterError_placeholder(history, text, model) ==
    Append(history, [prompt |-> text, response |-> <<>>, model |-> model,
                     timestamp |-> "12:00:00"])

\* The except branch of the submit handler: st.error and st.info, the log is
\* not touched.
HistoryAfterError(history, text, model) == history

\* A plausible slip: the history is shown in storage order.
ShownHistory_stored(history) == history

\* for i, conv in enumerate(reversed(st.session_state.conversation_history))
ShownHistory(history) == Reverse(history)

\* The text st.error puts before str(e) on line 271 (after its cross mark).
ErrorPrefix == <<"Error generating response: ">>

\* Lines 213-286: the session log, the text area, the submit handler and the
\* history, reached when both probes succeeded and no rerun was requested.
Content(p, selected_model) ==
    LET history == IF "conversation_history" \in session_keys
                   THEN conversation_history ELSE <<>>
        value == IF "user_prompt" \in session_keys THEN user_prompt ELSE <<>>
    IN  \E text \in TypedPrompts \cup {value} :
          LET q == IF p.button = "generate"
                   THEN [p EXCEPT !.prompt = text, !.model = selected_model]
                   ELSE p
          IN
          /\ session_keys' = session_keys \cup {"conversation_history"}
          /\ UNCHANGED user_prompt
          /\ rerun' = FALSE
          /\ IF p.button # "generate"
             THEN /\ conversation_history' = history
                  /\ page' = [q EXCEPT !.rendered = history # <<>>,
                                       !.history = ShownHistory(history)]
             ELSE IF IsBlank(text)
             THEN /\ conversation_history' = history
                  /\ page' = [q EXCEPT !.messages = @ \cup {"enter a prompt"},
                                       !.rendered = history # <<>>,
                                       !.history = ShownHistory(history)]
             ELSE \E backend \in UIBackends :
                    LET r == generate_llm_response(text, selected_model, backend) IN
                    IF r.kind = "return"
                    THEN \E now \in Times :
                           LET turn == [prompt |-> text,
                                        response |-> format_response(r.text),
                                        model |-> selected_model,
                                        timestamp |-> now]
                               after == AppendTurn(history, turn)
                           IN  /\ Len(history) < MaxTurns
                               /\ conversation_history' = after
                               /\ page' = [q EXCEPT !.calls = r.calls,
                                                    !.reply = r.text,
                                                    !.messages = @ \cup {"generated"},
                                                    !.rendered = after # <<>>,
                                                    !.history = ShownHistory(after)]
                    ELSE LET after == HistoryAfterError(history, text, selected_model)
                         IN  /\ conversation_history' = after
                             /\ page' = [q EXCEPT !.calls = r.calls,
                                                  !.error = ErrorPrefix \o r.text,
                                                  !.messages = @ \cup {"generation failed"},
                                                  !.rendered = after # <<>>,
                                                  !.history = ShownHistory(after)]

\* One run of the script: main() from its first line to its return or to the
\* st.rerun() that ends it, started by the control `button` (sample is the
\* sample button clicked, when one was).
main(button, sample) ==
    \E get1 \in ProbeEndpoints :
      LET p1 == [NoPage EXCEPT !.button = button, !.conn = <<StatusOf(get1)>>] IN
      IF ~check_ollama_connection(get1)
      THEN /\ page' = [p1 EXCEPT !.messages = {"Ollama is not running"}]
           /\ rerun' = FALSE
           /\ UNCHANGED session
      ELSE \E get2 \in UIEndpoints :
             LET available_models == get_available_models(get2)
                 model_options == IF available_models # <<>> THEN available_models
                                  ELSE FallbackModels
                 p2 == [p1 EXCEPT !.messages =
                          IF available_models # <<>> THEN {"models available"}
                          ELSE {"no models found"}]
             IN  \E index \in SelectChoices \cap DOMAIN model_options :
                   LET selected_model == model_options[index]
                       p3 == p2
                   IN  IF button = "clear"
                       THEN /\ page' = p3
                            /\ rerun' = TRUE
                            /\ UNCHANGED session
                       ELSE IF button = "sample"
                       THEN /\ page' = p3
                            /\ rerun' = TRUE
                            /\ user_prompt' = sample_prompts[sample]
                            /\ session_keys' = session_keys \cup {"user_prompt"}
                            /\ UNCHANGED conversation_history
                       ELSE \E get3 \in ProbeEndpoints :
                              LET p4 == [p3 EXCEPT !.conn = Append(@, StatusOf(get3))] IN
                              IF ~check_ollama_connection(get3)
                              THEN /\ page' = [p4 EXCEPT !.messages = @ \cup {"not connected"}]
                                   /\ rerun' = FALSE
                                   /\ UNCHANGED session
                              ELSE Content([p4 EXCEPT !.messages = @ \cup {"connected"}],
                                           selected_model)

\* ---- the user's interactions; each one runs the script once
\* The page is loaded, a widget other than a button changed, or the script
\* runs again after st.rerun().
Render ==
    /\ main("none", 1)
    /\ UNCHANGED fn

ClearChat ==
    /\ ~rerun
    /\ main("clear", 1)
    /\ UNCHANGED fn

SamplePrompt ==
    /\ ~rerun
    /\ \E sample \in SampleChoices : main("sample", sample)
    /\ UNCHANGED fn

GenerateResponse ==
    /\ ~rerun
    /\ main("generate", 1)
    /\ UNCHANGED fn

NoCall == [fn |-> "none"]

Init ==
    /\ session_keys = {}
    /\ conversation_history = <<>>
    /\ user_prompt = <<>>
    /\ rerun = FALSE
    /\ page = NoPage
    /\ fn_in = NoCall
    /\ fn_out = NoCall

Next == Render \/ ClearChat \/ SamplePrompt \/ GenerateResponse

Spec == Init /\ [][Next]_vars

\* ------------------------------------------- the functions taken one by one
\* A second specification: one call of one function of chatbot.py, its
\* arguments and the behaviour of the server drawn in the initial state.
FormatInputs ==
    { [fn |-> "format_response", response |-> s] : s \in StringsUpTo(MaxLen) }

FnPrompts == { <<>>, <<"Test prompt">> }

FnModels == { "llama2", "llama3.2" }

FnBackends ==
    { ChatRaises(<<"Connection error">>),
      ChatRaises(<<"timed out">>),
      ChatReplies([done |-> TRUE]),
      ChatReplies([message |-> [role |-> "assistant"]]),
      ChatReplies([message |-> [content |-> <<>>]]),
      ChatReplies([message |-> [content |-> <<" ", "a">>]]),
      ChatReplies([message |-> [content |-> <<"This is a test response">>]]) }

\* prompt_none: the prompt argument is None, and prompt is not read.
GenerateInputs ==
    { [fn |-> "generate_llm_response", prompt_none |-> n, prompt |-> pr,
       model |-> m, backend |-> b] :
         n \in BOOLEAN, pr \in FnPrompts, m \in FnModels, b \in FnBackends }

\* The entries of a models array: two with a name, one without, one that is
\* no object.
FnEntries ==
    { JObject([name |-> "llama3.2"]), JObject([name |-> "mistral"]),
      JObject([size |-> 1]), JNull }

FnItems == UNION { [1..n -> FnEntries] : n \in 0..2 }

FnBodies ==
    {NotJson, Json(JNull), Json(JList(<<>>)), Json(JObject([version |-> "0.1"])),
     Json(JObject([models |-> JNull]))}
    \cup { Json(JObject([models |-> JList(items)])) : items \in FnItems }

FnEndpoints ==
    {GetRaises} \cup { GetResponse(st, b) : st \in {HttpOk, 204, 404, 500}, b \in FnBodies }

ProbeInputs ==
    { [fn |-> f, get |-> g] :
        f \in {"check_ollama_connection", "get_available_models"}, g \in FnEndpoints }

ArgOf(in) == IF in.prompt_none THEN None ELSE in.prompt

FnInit ==
    /\ session_keys = {}
    /\ conversation_history = <<>>
    /\ user_prompt = <<>>
    /\ rerun = FALSE
    /\ page = NoPage
    /\ fn_in \in FormatInputs \cup GenerateInputs \cup ProbeInputs
    /\ fn_out = NoCall

CallFormatResponse ==
    /\ fn_in.fn = "format_response"
    /\ fn_out = NoCall
    /\ fn_out' = [fn |-> fn_in.fn, text |-> format_response(fn_in.response)]
    /\ UNCHANGED <<session, rerun, page, fn_in>>

CallGenerateLlmResponse ==
    /\ fn_in.fn = "generate_llm_response"
    /\ fn_out = NoCall
    /\ fn_out' = [fn |-> fn_in.fn,
                  result |-> generate_llm_response(ArgOf(fn_in), fn_in.model, fn_in.backend)]
    /\ UNCHANGED <<session, rerun, page, fn_in>>

CallCheckOllamaConnection ==
    /\ fn_in.fn = "check_ollama_connection"
    /\ fn_out = NoCall
    /\ fn_out' = [fn |-> fn_in.fn, connected |-> check_ollama_connection(fn_in.get)]
    /\ UNCHANGED <<session, rerun, page, fn_in>>

CallGetAvailableModels ==
    /\ fn_in.fn = "get_available_models"
    /\ fn_out = NoCall
    /\ fn_out' = [fn |-> fn_in.fn, models |-> get_available_models(fn_in.get)]
    /\ UNCHANGED <<session, rerun, page, fn_in>>

FnNext ==
    \/ CallFormatResponse
    \/ CallGenerateLlmResponse
    \/ CallCheckOllamaConnection
    \/ CallGetAvailableModels

SpecFn == FnInit /\ [][FnNext]_vars

\* ================================================================ properties
AllWhitespace(text) == \A i \in 1..Len(text) : text[i] \in Whitespace

\* The run reached the end of main(): both probes succeeded and no rerun
\* was requested.
RanToEnd(pg) == "connected" \in pg.messages

\* The run made a generation call and showed no error: the generation
\* succeeded.
Generated(pg) == pg.calls # <<>> /\ pg.error = <<>>

\* ---- C1
\* C1: in every run that is not started by Clear Chat, the log at the end of
\* the run has the log at its start as a prefix (nothing is modified, removed
\* or reordered), and a run that reaches its end shows exactly the reversal
\* of the stored log, most recent turn first.
LogIsAppendOnly ==
    [][ page'.button # "clear" =>
          /\ IsPrefix(conversation_history, conversation_history')
          /\ (RanToEnd(page') =>
                /\ page'.history = Reverse(conversation_history')
                /\ page'.rendered = (conversation_history' # <<>>))
      ]_vars

\* Two different turns are stored in creation order and shown newest first.
LogIsAppendOnlyWitness ==
    /\ Len(conversation_history) = 2
    /\ conversation_history[1] # conversation_history[2]
    /\ page.button = "none"
    /\ page.rendered
    /\ page.history = <<conversation_history[2], conversation_history[1]>>

\* ---- C2
\* C2: a run whose generation succeeds makes one call and appends exactly one
\* turn at the end of the log: its prompt is the submitted text as entered,
\* its response is the reply with the outer whitespace stripped, its model is
\* the selected model; a turn equal to one already stored is appended too.
\* (The log of the model stops growing at MaxTurns; the code has no cap.)
SuccessAppendsOneTurn ==
    [][ Generated(page') =>
          /\ Len(page'.calls) = 1
          /\ Len(conversation_history') = Len(conversation_history) + 1
          /\ SubSeq(conversation_history', 1, Len(conversation_history)) = conversation_history
          /\ LET turn == conversation_history'[Len(conversation_history')]
             IN  /\ turn.prompt = page'.prompt
                 /\ turn.response = format_response(page'.reply)
                 /\ turn.model = page'.model
                 /\ turn.timestamp \in Times
      ]_vars

\* The same prompt was submitted twice, with padding in the prompt and in the
\* reply: two equal turns are stored, the prompt unstripped, the reply
\* stripped.
SuccessAppendsOneTurnWitness ==
    /\ Generated(page)
    /\ Len(conversation_history) = 2
    /\ conversation_history[1] = conversation_history[2]
    /\ conversation_history[2].prompt = <<" ", "a">>
    /\ page.reply = <<" ", "a", "\n">>
    /\ conversation_history[2].response = <<"a">>

\* ---- C3
\* C3: after a run started by Clear Chat the session log is empty.
ClearEmptiesLog ==
    page.button = "clear" => conversation_history = <<>>

\* ---- C4
\* C4 as claimed: when a probe of the run failed or the server listed no
\* model, the run makes no generation call.
UnavailableBlocksGeneration ==
    (\/ \E i \in 1..Len(page.conn) : page.conn[i] # HttpOk
     \/ "no models found" \in page.messages)
    => page.calls = <<>>

\* C4 amended: when a connectivity probe of the run failed, the run shows an
\* error notice, makes no generation call and renders neither the prompt
\* handling nor the history.
UnreachableBlocksGeneration ==
    (\E i \in 1..Len(page.conn) : page.conn[i] # HttpOk)
    => /\ page.calls = <<>>
       /\ page.messages \cap {"Ollama is not running", "not connected"} # {}
       /\ ~RanToEnd(page)
       /\ ~page.rendered

\* Generate Response was pressed, the first probe went through and the
\* second one failed.
UnreachableBlocksGenerationWitness ==
    /\ page.button = "generate"
    /\ page.conn = <<HttpOk, 0>>
    /\ page.calls = <<>>
    /\ conversation_history # <<>>

\* ---- C6
\* C6: a run whose generation call fails shows the error with the wrapped
\* message, still runs to its end and shows the stored history, leaves the
\* log as it found it and requests no rerun; and from the state it leaves, a
\* resubmission whose generation succeeds appends a turn.
ResubmitSucceeds ==
    /\ GenerateResponse
    /\ Generated(page')
    /\ Len(conversation_history') = Len(conversation_history) + 1

FailureLeavesLogUntouched ==
    /\ [][ page'.error # <<>> =>
             /\ IsPrefix(ErrorPrefix \o ErrorMarker, page'.error)
             /\ Len(page'.error) > Len(ErrorPrefix \o ErrorMarker)
             /\ RanToEnd(page')
             /\ conversation_history' = conversation_history
             /\ page'.history = Reverse(conversation_history)
             /\ page'.rendered = (conversation_history # <<>>)
             /\ ~rerun'
         ]_vars
    /\ [](page.error # <<>> /\ Len(conversation_history) < MaxTurns
            => ENABLED ResubmitSucceeds)

\* A generation failed with one turn stored: the turn is still there and is
\* shown.
FailureLeavesLogUntouchedWitness ==
    /\ page.error = ErrorPrefix \o ErrorMarker \o <<"Connection error">>
    /\ Len(conversation_history) = 1
    /\ page.history = conversation_history

\* ---- C10
\* C10: a submit whose prompt is empty or all whitespace makes no generation
\* call, shows the warning and leaves the log unchanged; and every stored
\* turn has a prompt with a non-whitespace character.
BlankPromptNeverGenerates ==
    /\ [][ page'.button = "generate" /\ RanToEnd(page') /\ AllWhitespace(page'.prompt) =>
             /\ page'.calls = <<>>
             /\ "enter a prompt" \in page'.messages
             /\ conversation_history' = conversation_history
         ]_vars
    /\ [](\A i \in 1..Len(conversation_history) :
            ~AllWhitespace(conversation_history[i].prompt))

\* A prompt of one space was submitted with a turn already stored.
BlankPromptNeverGeneratesWitness ==
    /\ page.button = "generate"
    /\ page.prompt = <<" ">>
    /\ "enter a prompt" \in page.messages
    /\ Len(conversation_history) = 1

\* ---- C5
\* The reply object carries message.content.
WellFormedReply(backend) ==
    /\ backend.kind = "reply"
    /\ "message" \in DOMAIN backend.reply
    /\ "content" \in DOMAIN backend.reply.message

\* str(e) of what went wrong with the call or with the reply.
FailureDescription(backend) ==
    IF backend.kind = "raise" THEN backend.desc
    ELSE IF "message" \notin DOMAIN backend.reply THEN <<"'message'">>
    ELSE <<"'content'">>

\* C5: generate_llm_response makes exactly one call, with the model and one
\* user message holding the prompt; it returns message.content of a
\* well-formed reply, and raises the marker followed by the failure
\* description for every other outcome of the call.
GenerateCallsOnceAndWraps ==
    fn_out.fn = "generate_llm_response" =>
        LET r == fn_out.result
            b == fn_in.backend
        IN  /\ r.calls = <<[model |-> fn_in.model,
                            messages |-> <<[role |-> "user", content |-> ArgOf(fn_in)]>>]>>
            /\ WellFormedReply(b) =>
                 (r.kind = "return" /\ r.text = b.reply.message.content)
            /\ ~WellFormedReply(b) =>
                 (r.kind = "raise"
                  /\ r.text = <<"Error communicating with Ollama: ">> \o FailureDescription(b))

\* The reply has a message without content: the KeyError is wrapped.
GenerateCallsOnceAndWrapsWitness ==
    /\ fn_out.fn = "generate_llm_response"
    /\ fn_in.prompt = <<"Test prompt">>
    /\ ~fn_in.prompt_none
    /\ fn_in.backend = ChatReplies([message |-> [role |-> "assistant"]])
    /\ fn_out.result.kind = "raise"
    /\ fn_out.result.text = <<"Error communicating with Ollama: ", "'content'">>

\* ---- C7
\* The payload is an object whose models entry is a list of objects that all
\* have a name.
WellFormedPayload(get) ==
    /\ get.kind = "response"
    /\ get.body.json
    /\ get.body.data.t = "object"
    /\ "models" \in DOMAIN get.body.data.fields
    /\ get.body.data.fields.models.t = "list"
    /\ \A i \in 1..Len(get.body.data.fields.models.items) :
          LET m == get.body.data.fields.models.items[i]
          IN  m.t = "object" /\ "name" \in DOMAIN m.fields

\* C7: the probes return for every behaviour of the endpoint (the model's
\* functions have no raising outcome); check_ollama_connection is true
\* exactly for a response with status 200; get_available_models is the names
\* in payload order for a well-formed 200 response and [] otherwise.
ProbesDegradeToFalseAndEmpty ==
    /\ fn_out.fn = "check_ollama_connection" =>
         (fn_out.connected <=> (fn_in.get.kind = "response" /\ fn_in.get.status = 200))
    /\ fn_out.fn = "get_available_models" =>
         IF fn_in.get.kind = "response" /\ fn_in.get.status = 200 /\ WellFormedPayload(fn_in.get)
         THEN LET items == fn_in.get.body.data.fields.models.items
              IN  fn_out.models = [i \in 1..Len(items) |-> items[i].fields.name]
         ELSE fn_out.models = <<>>

\* Two names come back in payload order.
ProbesDegradeToFalseAndEmptyWitness ==
    /\ fn_out.fn = "get_available_models"
    /\ fn_in.get.kind = "response"
    /\ fn_in.get.status = 200
    /\ fn_out.models = <<"mistral", "llama3.2">>

\* ---- C8
\* C8: generate_llm_response raises for an empty or None prompt, whatever the
\* model and the backend.
InvalidPromptRaises ==
    (fn_out.fn = "generate_llm_response" /\ (fn_in.prompt_none \/ fn_in.prompt = <<>>))
    => fn_out.result.kind = "raise"

\* ---- C9
\* C9: the result of format_response is its input without a leading and a
\* trailing run of whitespace, the part between them unchanged; it neither
\* starts nor ends with whitespace; it is empty for the empty string; and
\* formatting it again changes nothing.
FormatStripsOuterWhitespaceOnly ==
    fn_out.fn = "format_response" =>
        LET x == fn_in.response
            y == fn_out.text
        IN  /\ \E i \in 0..Len(x) :
                 /\ i + Len(y) <= Len(x)
                 /\ AllWhitespace(SubSeq(x, 1, i))
                 /\ SubSeq(x, i + 1, i + Len(y)) = y
                 /\ AllWhitespace(SubSeq(x, i + Len(y) + 1, Len(x)))
            /\ y # <<>> => (y[1] \notin Whitespace /\ y[Len(y)] \notin Whitespace)
            /\ x = <<>> => y = <<>>
            /\ format_response(y) = y

\* "  a\n a " loses its outer spaces and keeps the indentation of line two.
FormatStripsOuterWhitespaceOnlyWitness ==
    /\ fn_out.fn = "format_response"
    /\ fn_in.response = <<" ", "a", "\n", " ", "a", " ">>
    /\ fn_out.text = <<"a", "\n", " ", "a">>

====
